---------------------------- MODULE Spec2Model ----------------------------
(***************************************************************************)
(* Model of the parquet query / introspection plugins:                     *)
(*   project/plugins/parquet_tools.py           query_parquet_files        *)
(*   project/plugins/get_schema.py              get_schema                 *)
(*   project/plugins/list_tables_in_directory.py list_tables_in_directory  *)
(* Strings are TLA+ strings (sequences of characters); a path is parsed    *)
(* into components the way pathlib.PurePosixPath does.                    *)
(***************************************************************************)
EXTENDS Integers, Sequences, FiniteSets, TLC

(***************************************************************************)
(* Bounds of the model.                                                    *)
(***************************************************************************)
MaxFiles == 3
MaxRows == 2

(***************************************************************************)
(* Program constants.                                                      *)
(***************************************************************************)
TOKEN_LIMIT == 5000
average_chars_per_token == 3

(***************************************************************************)
(* String helpers: str.lower(), the `in` substring test, str.rfind.        *)
(***************************************************************************)
Char(s, i) == SubSeq(s, i, i)

LowerChar(c) ==
    CASE c = "A" -> "a" [] c = "B" -> "b" [] c = "C" -> "c" [] c = "D" -> "d"
      [] c = "E" -> "e" [] c = "F" -> "f" [] c = "G" -> "g" [] c = "H" -> "h"
      [] c = "I" -> "i" [] c = "J" -> "j" [] c = "K" -> "k" [] c = "L" -> "l"
      [] c = "M" -> "m" [] c = "N" -> "n" [] c = "O" -> "o" [] c = "P" -> "p"
      [] c = "Q" -> "q" [] c = "R" -> "r" [] c = "S" -> "s" [] c = "T" -> "t"
      [] c = "U" -> "u" [] c = "V" -> "v" [] c = "W" -> "w" [] c = "X" -> "x"
      [] c = "Y" -> "y" [] c = "Z" -> "z" [] OTHER -> c

RECURSIVE lower(_)
lower(s) == IF s = "" THEN "" ELSE LowerChar(Char(s, 1)) \o lower(Tail(s))

\* Python's `p in t` for strings.
Contains(t, p) ==
    \E i \in 1..(Len(t) - Len(p) + 1) : SubSeq(t, i, i + Len(p) - 1) = p

\* str.rfind(c): the last index of character c in s (1-based), 0 when absent.
RECURSIVE rfind(_, _, _)
rfind(s, c, i) ==
    IF i = 0 THEN 0 ELSE IF Char(s, i) = c THEN i ELSE rfind(s, c, i - 1)

RECURSIVE Join(_, _)
Join(parts, sep) ==
    IF parts = << >> THEN ""
    ELSE IF Len(parts) = 1 THEN parts[1]
    ELSE parts[1] \o sep \o Join(Tail(parts), sep)

(***************************************************************************)
(* pathlib: Path(s), is_absolute, relative_to, str, stem.                  *)
(***************************************************************************)
\* The segments of s between "/" separators, empty segments included.
RECURSIVE Segs(_, _, _)
Segs(s, i, cur) ==
    IF i > Len(s) THEN <<cur>>
    ELSE IF Char(s, i) = "/" THEN <<cur>> \o Segs(s, i + 1, "")
    ELSE Segs(s, i + 1, cur \o Char(s, i))

\* Path(s): pathlib drops empty and "." components when it parses.
Path(s) ==
    [abs |-> (Len(s) > 0 /\ Char(s, 1) = "/"),
     parts |-> SelectSeq(Segs(s, 1, ""), LAMBDA c : c # "" /\ c # ".")]

is_absolute(p) == p.abs

PathStr(p) ==
    IF p.abs THEN "/" \o Join(p.parts, "/")
    ELSE IF p.parts = << >> THEN "."
    ELSE Join(p.parts, "/")

\* Whether relative_to(other) succeeds: other's components are a prefix of p's.
IsRelativeTo(p, other) ==
    /\ p.abs = other.abs
    /\ Len(other.parts) <= Len(p.parts)
    /\ SubSeq(p.parts, 1, Len(other.parts)) = other.parts

\* p.relative_to(other) when it succeeds (it raises ValueError otherwise).
relative_to(p, other) ==
    [abs |-> FALSE,
     parts |-> SubSeq(p.parts, Len(other.parts) + 1, Len(p.parts))]

\* The path-'/' operator: cwd / r.
JoinPath(base, r) ==
    IF r.abs THEN r ELSE [abs |-> base.abs, parts |-> base.parts \o r.parts]

PathName(p) == IF p.parts = << >> THEN "" ELSE p.parts[Len(p.parts)]

\* Path.stem: the final component without its last suffix.
stem(p) ==
    LET name == PathName(p)
        i == rfind(name, ".", Len(name))
    IN IF 1 < i /\ i < Len(name) THEN SubSeq(name, 1, i - 1) ELSE name

\* A mutant of the path normaliser's containment test: string prefix matching.
NormalizePathByStringPrefix(file_path, cwd) ==
    LET c == PathStr(cwd)
    IN IF is_absolute(Path(file_path))
       THEN IF Len(file_path) >= Len(c) /\ SubSeq(file_path, 1, Len(c)) = c
            THEN LET rest == SubSeq(file_path, Len(c) + 1, Len(file_path))
                 IN PathStr([abs |-> FALSE, parts |-> Path(rest).parts])
            ELSE PathStr(Path(file_path))
       ELSE file_path

\* The path normalisation block shared by the three plugins.
NormalizePath(file_path, cwd) ==
    LET file_path_obj == Path(file_path)
    IN IF is_absolute(file_path_obj)
       THEN IF IsRelativeTo(file_path_obj, cwd)
            THEN PathStr(relative_to(file_path_obj, cwd))
            ELSE PathStr(file_path_obj)
       ELSE file_path

(***************************************************************************)
(* Python / JSON values.  A value is a tagged record:                      *)
(*   [t |-> "int", v], [t |-> "bool", b], [t |-> "null"],                  *)
(*   [t |-> "str", v, pad]   the string v followed by pad more characters  *)
(*                            (long text whose content is not modelled),   *)
(*   [t |-> "datetime", y, mo, d, h, mi, s, us], [t |-> "date", y, mo, d], *)
(*   [t |-> "time", h, mi, s, us],                                         *)
(*   [t |-> "dict", items]   an ordered sequence of [k, v] pairs,          *)
(*   [t |-> "list", items]   a sequence of values.                         *)
(***************************************************************************)
Int_(n) == [t |-> "int", v |-> n]
Str(s) == [t |-> "str", v |-> s, pad |-> 0]
LongStr(s, n) == [t |-> "str", v |-> s, pad |-> n]
Bool(b) == [t |-> "bool", b |-> b]
Null == [t |-> "null"]
Dict(items) == [t |-> "dict", items |-> items]
List(items) == [t |-> "list", items |-> items]
KV(k, v) == [k |-> k, v |-> v]

Keys(d) == [i \in 1..Len(d.items) |-> d.items[i].k]
HasKey(d, k) == \E i \in 1..Len(d.items) : d.items[i].k = k
Get(d, k) == d.items[CHOOSE i \in 1..Len(d.items) : d.items[i].k = k].v

Pad2(n) == IF n < 10 THEN "0" \o ToString(n) ELSE ToString(n)
Pad4(n) ==
    IF n < 10 THEN "000" \o ToString(n)
    ELSE IF n < 100 THEN "00" \o ToString(n)
    ELSE IF n < 1000 THEN "0" \o ToString(n)
    ELSE ToString(n)
Pad6(n) ==
    IF n < 10 THEN "00000" \o ToString(n)
    ELSE IF n < 100 THEN "0000" \o ToString(n)
    ELSE IF n < 1000 THEN "000" \o ToString(n)
    ELSE IF n < 10000 THEN "00" \o ToString(n)
    ELSE IF n < 100000 THEN "0" \o ToString(n)
    ELSE ToString(n)

\* date.isoformat(), time.isoformat(), datetime.isoformat() of naive values.
IsoDate(o) == Pad4(o.y) \o "-" \o Pad2(o.mo) \o "-" \o Pad2(o.d)
IsoTime(o) ==
    Pad2(o.h) \o ":" \o Pad2(o.mi) \o ":" \o Pad2(o.s)
        \o (IF o.us = 0 THEN "" ELSE "." \o Pad6(o.us))
isoformat(o) ==
    CASE o.t = "datetime" -> IsoDate(o) \o "T" \o IsoTime(o)
      [] o.t = "date" -> IsoDate(o)
      [] o.t = "time" -> IsoTime(o)

IsTemporal(o) == o.t \in {"datetime", "date", "time"}

\* _serialize_datetime
RECURSIVE serialize_datetime(_)
serialize_datetime(obj) ==
    CASE obj.t = "datetime" -> Str(isoformat(obj))
      [] obj.t = "dict" ->
            Dict([i \in 1..Len(obj.items) |->
                    KV(obj.items[i].k, serialize_datetime(obj.items[i].v))])
      [] obj.t = "list" ->
            List([i \in 1..Len(obj.items) |-> serialize_datetime(obj.items[i])])
      [] OTHER -> obj

(***************************************************************************)
(* json.dumps(v, ensure_ascii=False, indent=2): whether it succeeds, and   *)
(* the number of characters it emits.  A JSON text is kept as the record   *)
(* [doc, chars]: what json.loads gives back, and len() of the text.        *)
(***************************************************************************)
RECURSIVE JsonSerializable(_)
JsonSerializable(v) ==
    CASE v.t \in {"dict"} ->
            \A i \in 1..Len(v.items) : JsonSerializable(v.items[i].v)
      [] v.t = "list" -> \A i \in 1..Len(v.items) : JsonSerializable(v.items[i])
      [] OTHER -> ~IsTemporal(v)

RECURSIVE SumSeq(_)
SumSeq(ns) == IF ns = << >> THEN 0 ELSE Head(ns) + SumSeq(Tail(ns))

\* Characters json escapes with a backslash.
Escapes(s) == Cardinality({i \in 1..Len(s) : Char(s, i) \in {"\n", "\"", "\\"}})

RECURSIVE JsonChars(_, _)
JsonChars(v, ind) ==
    CASE v.t = "int" -> Len(ToString(v.v))
      [] v.t = "bool" -> IF v.b THEN 4 ELSE 5
      [] v.t = "null" -> 4
      [] v.t = "str" -> 2 + Len(v.v) + Escapes(v.v) + v.pad
      [] v.t = "list" ->
            IF v.items = << >> THEN 2
            ELSE 1 + SumSeq([i \in 1..Len(v.items) |->
                                1 + (ind + 2) + JsonChars(v.items[i], ind + 2)])
                   + (Len(v.items) - 1) + 1 + ind + 1
      [] v.t = "dict" ->
            IF v.items = << >> THEN 2
            ELSE 1 + SumSeq([i \in 1..Len(v.items) |->
                                1 + (ind + 2) + (Len(v.items[i].k) + 2) + 2
                                  + JsonChars(v.items[i].v, ind + 2)])
                   + (Len(v.items) - 1) + 1 + ind + 1

dumps(v) == [doc |-> v, chars |-> JsonChars(v, 0)]

\* payload.startswith("[")
StartsWithBracket(payload) == payload.doc.t = "list"

(***************************************************************************)
(* Python's float, an IEEE 754 binary64, for the positive finite values    *)
(* the budget computes.  A value is the record [m, e]: its 53 significand  *)
(* bits, most significant first and the first one 1, and the exponent of   *)
(* the first bit; it stands for the sum of m[i] * 2^(e - i + 1).  Every    *)
(* operation rounds its exact result once, half to even.  Operands of      *)
(* float_div stay below 2^19, so that no intermediate leaves 32 bits.      *)
(***************************************************************************)
MantissaBits == 53

RECURSIVE BitsOfNat(_)
BitsOfNat(n) == IF n = 0 THEN << >> ELSE Append(BitsOfNat(n \div 2), n % 2)

RECURSIVE NatOfBits(_)
NatOfBits(bits) ==
    IF bits = << >> THEN 0
    ELSE 2 * NatOfBits(SubSeq(bits, 1, Len(bits) - 1)) + bits[Len(bits)]

Zeros(n) == [i \in 1..n |-> 0]

\* bits + 1, for bits that are not all ones
Increment(bits) ==
    LET p == CHOOSE i \in 1..Len(bits) :
                 bits[i] = 0 /\ \A j \in (i + 1)..Len(bits) : bits[j] = 1
    IN [i \in 1..Len(bits) |-> IF i < p THEN bits[i] ELSE IF i = p THEN 1 ELSE 0]

\* Round-half-to-even of an exact value to 53 bits: `bits` start with a 1 whose
\* exponent is e; `sticky` says that the exact value has more behind the bits.
RoundToFloat(bits, e, sticky) ==
    IF Len(bits) <= MantissaBits
    THEN [m |-> bits \o Zeros(MantissaBits - Len(bits)), e |-> e]
    ELSE LET kept == SubSeq(bits, 1, MantissaBits)
             guard == bits[MantissaBits + 1]
             rest == sticky \/ \E i \in (MantissaBits + 2)..Len(bits) : bits[i] = 1
             up == guard = 1 /\ (rest \/ kept[MantissaBits] = 1)
         IN IF ~up THEN [m |-> kept, e |-> e]
            ELSE IF \A i \in 1..MantissaBits : kept[i] = 1
            THEN [m |-> << 1 >> \o Zeros(MantissaBits - 1), e |-> e + 1]
            ELSE [m |-> Increment(kept), e |-> e]

\* float(n) for a positive int
float_of_int(n) == LET bits == BitsOfNat(n) IN RoundToFloat(bits, Len(bits) - 1, FALSE)

RECURSIVE Pow2(_)
Pow2(n) == IF n = 0 THEN 1 ELSE 2 * Pow2(n - 1)

\* The n bits of q < 2^n, most significant first
BitsOfWidth(q, n) == [i \in 1..n |-> (q \div Pow2(n - i)) % 2]

ChunkBits == 11
Chunks == 5

\* The next Chunks * ChunkBits quotient bits of r / b (r < b < 2^19)
RECURSIVE QuotientBits(_, _, _)
QuotientBits(r, b, n) ==
    IF n = 0 THEN [bits |-> << >>, r |-> r]
    ELSE LET scaled == r * Pow2(ChunkBits)
             rest == QuotientBits(scaled % b, b, n - 1)
         IN [bits |-> BitsOfWidth(scaled \div b, ChunkBits) \o rest.bits, r |-> rest.r]

\* floor(log2(a / b)) for positive ints
RECURSIVE Log2Floor(_, _)
Log2Floor(a, b) ==
    IF a >= 2 * b THEN Log2Floor(a, 2 * b) + 1
    ELSE IF a < b THEN Log2Floor(2 * a, b) - 1
    ELSE 0

\* a / b for positive ints (int.__truediv__ rounds the exact quotient once)
float_div(a, b) ==
    LET e == Log2Floor(a, b)
        a1 == IF e < 0 THEN a * Pow2(-e) ELSE a
        b1 == IF e > 0 THEN b * Pow2(e) ELSE b
        q == QuotientBits(a1 - b1, b1, Chunks)
    IN RoundToFloat(<< 1 >> \o q.bits, e, q.r # 0)

LimbBits == 12
Limbs == 5

\* The significand as Limbs numbers below 2^LimbBits, least significant first
LimbsOf(m) ==
    LET padded == Zeros(Limbs * LimbBits - MantissaBits) \o m
    IN [j \in 1..Limbs |->
           NatOfBits(SubSeq(padded, LimbBits * (Limbs - j) + 1, LimbBits * (Limbs - j + 1)))]

\* The limbs of the product of two significands, from limb k on
RECURSIVE ProductLimbs(_, _, _, _)
ProductLimbs(xl, yl, k, carry) ==
    IF k > 2 * Limbs THEN << >>
    ELSE LET I == {i \in 1..Limbs : k + 1 - i \in 1..Limbs}
             RECURSIVE column(_)
             column(S) == IF S = {} THEN 0
                          ELSE LET i == CHOOSE i \in S : TRUE
                               IN xl[i] * yl[k + 1 - i] + column(S \ {i})
             total == column(I) + carry
         IN << total % Pow2(LimbBits) >>
            \o ProductLimbs(xl, yl, k + 1, total \div Pow2(LimbBits))

\* x * y: the exact product of the significands, rounded once
float_mul(x, y) ==
    LET xl == LimbsOf(x.m) \o << >>
        yl == LimbsOf(y.m) \o << >>
        digits == ProductLimbs(xl, yl, 1, 0)
        bit(p) == (digits[p \div LimbBits + 1] \div Pow2(p % LimbBits)) % 2
        long == bit(2 * MantissaBits - 1) = 1
        len == IF long THEN 2 * MantissaBits ELSE 2 * MantissaBits - 1
        bits == [i \in 1..len |-> bit(len - i)] \o << >>
    IN RoundToFloat(bits, x.e + y.e + (IF long THEN 1 ELSE 0), FALSE)

\* int(x): truncation
int_of_float(x) == IF x.e < 0 THEN 0 ELSE NatOfBits(SubSeq(x.m, 1, x.e + 1))

(***************************************************************************)
(* The token budget.                                                       *)
(***************************************************************************)
\* A mutant of the estimate: floor instead of ceiling.
estimate_token_count_floor(text) == text.chars \div average_chars_per_token

\* _estimate_token_count
estimate_token_count(text) ==
    (text.chars + average_chars_per_token - 1) \div average_chars_per_token

Max(a, b) == IF a >= b THEN a ELSE b

\* The literal 0.8: the float nearest to 8/10.
safety_margin == float_div(4, 5)

suggestion_parts(suggested_limit) ==
    << "The query result is too large. Please adjust your query:",
       "  * Reduce the LIMIT value"
          \o (IF suggested_limit.t = "int" /\ suggested_limit.v # 0
              THEN " (try LIMIT " \o ToString(suggested_limit.v) \o ")" ELSE ""),
       "  * Filter rows with WHERE clauses to reduce result size",
       "  * Select only necessary columns instead of SELECT *",
       "  * Use aggregation (COUNT, SUM, AVG) instead of retrieving raw rows" >>

\* _enforce_token_limit (parquet_tools.py; the copies in get_schema.py and
\* list_tables_in_directory.py build the same report without "suggestion").
enforce_token_limit(payload, context) ==
    LET token_estimate == estimate_token_count(payload)
        current_size ==
            IF StartsWithBracket(payload) THEN Int_(Len(payload.doc.items)) ELSE Null
        \* `if current_size:` is false for None and for 0.
        ratio == float_div(TOKEN_LIMIT, token_estimate)
        suggested_limit ==
            IF current_size.t = "int" /\ current_size.v # 0
            THEN Int_(Max(1, int_of_float(
                     float_mul(float_mul(float_of_int(current_size.v), ratio),
                               safety_margin))))
            ELSE Null
        warning ==
            Dict(<< KV("error", Str("Result exceeds token budget")),
                    KV("context", Str(context)),
                    KV("estimated_tokens", Int_(token_estimate)),
                    KV("token_limit", Int_(TOKEN_LIMIT)),
                    KV("rows_returned", current_size),
                    KV("suggested_limit", suggested_limit),
                    KV("suggestion", Str(Join(suggestion_parts(suggested_limit), "\n"))) >>)
    IN IF token_estimate <= TOKEN_LIMIT THEN payload ELSE dumps(warning)

IsOverflowReport(text) ==
    /\ text.doc.t = "dict"
    /\ HasKey(text.doc, "error")
    /\ Get(text.doc, "error") = Str("Result exceeds token budget")

(***************************************************************************)
(* The environment: the working directory, the files a caller may name,    *)
(* the texts of the engine's errors, and the rows a query may return.      *)
(***************************************************************************)
cwd == Path("/work")

FilePool == {"a.parquet", "/work/a_1.parquet", "/tmp/b.parquet"}

\* The path of the pool that may be a directory instead of a file.
DirPool == {"/tmp/b.parquet"}

RECURSIVE SeqsUpTo(_, _)
SeqsUpTo(S, n) ==
    IF n = 0 THEN {<< >>}
    ELSE LET shorter == SeqsUpTo(S, n - 1)
         IN shorter \cup {Append(q, e) : q \in {r \in shorter : Len(r) = n - 1}, e \in S}

Range(q) == {q[i] : i \in 1..Len(q)}

Queries == {"SELECT * FROM a", "SELCT * FROM a"}

Limits == (-1)..MaxRows

\* Texts of engine failures (DuckDB's wording).
ErrTexts ==
    { "Parser Error: syntax error at or near SELCT",
      "Parser Error: syntax error at or near TABLE",
      "Catalog Error: Table with name sales does not exist!",
      "Binder Error: Referenced column x not found in FROM clause!" }

\* The engine's failure when read_parquet is given a directory.
NoFilesFound == "IO Error: No files found that match the pattern"

Exc(cls, msg) == [cls |-> cls, msg |-> msg, pad |-> 0]
NoExc == Exc("none", "")
EngineError(msg) == Exc("duckdb.Error", msg)

DateTime(y, mo, d, h, mi, s, us) ==
    [t |-> "datetime", y |-> y, mo |-> mo, d |-> d, h |-> h, mi |-> mi, s |-> s, us |-> us]
Date(y, mo, d) == [t |-> "date", y |-> y, mo |-> mo, d |-> d]
Time(h, mi, s, us) == [t |-> "time", h |-> h, mi |-> mi, s |-> s, us |-> us]

\* Rows as the plugin builds them from fetchall() and conn.description:
\* ordered column -> value mappings.
RowPool ==
    { Dict(<< KV("id", Int_(1)), KV("ts", DateTime(2024, 1, 2, 3, 4, 5, 0)) >>),
      Dict(<< KV("id", Int_(2)), KV("ts", LongStr("x", 9000)) >>),
      Dict(<< KV("id", Int_(3)), KV("ts", Date(2024, 1, 2)) >>) }

NoText == [doc |-> Null, chars |-> 0]

(***************************************************************************)
(* State.                                                                  *)
(***************************************************************************)
VARIABLES
    plugin,          \* the plugin being called, or "idle"
    pc,              \* the position in the call
    args,            \* the call's arguments
    missing,         \* the paths that do not exist on the file system
    directories,     \* the paths that exist and are directories
    conns,           \* the connections this call has opened: "open" | "closed"
    conn,            \* the connection bound to `conn` (an index of conns), 0 if none
    parquet_files,   \* the local parquet_files / parquet_file / glob matches
    idx,             \* the loop index
    table_names,     \* the set table_names
    assigned,        \* the table names in the order table_names.add() took them
    views,           \* the views that exist on the connection
    executed,        \* whether the caller's query has been handed to the engine
    result,          \* the rows of the query
    serialized_rows, \* serialized_rows, after the limit
    result_json,     \* result_json, the text handed to _enforce_token_limit
    files_info,      \* files_info of list_tables_in_directory
    exc,             \* the exception in flight
    retval,          \* the value of the return statement, pending the finally
    outcome          \* what the call did: nothing yet, a return, or a raise

vars == << plugin, pc, args, missing, directories, directories, conns, conn, parquet_files, idx, table_names,
           assigned, views, executed, result, serialized_rows, result_json,
           files_info, exc, retval, outcome >>

NoArgs == [none |-> TRUE]
NoOutcome == [kind |-> "none"]
Return(text) == [kind |-> "return", value |-> text]
Raise(e) == [kind |-> "raise", exc |-> e]

Locals0 ==
    /\ conns = << >>
    /\ conn = 0
    /\ parquet_files = << >>
    /\ idx = 0
    /\ table_names = {}
    /\ assigned = << >>
    /\ views = {}
    /\ executed = FALSE
    /\ result = << >>
    /\ serialized_rows = << >>
    /\ result_json = NoText
    /\ files_info = << >>
    /\ exc = NoExc
    /\ retval = NoText
    /\ outcome = NoOutcome

Init ==
    /\ plugin = "idle"
    /\ pc = "idle"
    /\ args = NoArgs
    /\ missing = {}
    /\ directories = {}
    /\ Locals0

(***************************************************************************)
(* query_parquet_files                                                     *)
(***************************************************************************)
\* The caller's arguments.  A single path given as a string is the one-element
\* list (parquet_tools.py:79-80).
QueryCall ==
    /\ plugin = "idle"
    /\ \E files \in SeqsUpTo(FilePool, MaxFiles), q \in Queries, l \in Limits :
          /\ args' = [parquet_files |-> files, query |-> q, limit |-> l]
          /\ \E m \in SUBSET Range(files) :
                /\ missing' = m
                /\ \E d \in SUBSET ((Range(files) \cap DirPool) \ m) : directories' = d
    /\ plugin' = "query"
    /\ pc' = "validate"
    /\ UNCHANGED << conns, conn, parquet_files, idx, table_names, assigned, views,
                    executed, result, serialized_rows, result_json, files_info,
                    exc, retval, outcome >>

FileNotFound(file_path) ==
    Exc("FileNotFoundError", "Parquet file not found: " \o file_path)

\* A mutant of the validation: it reports the last missing file.
validate_last_missing(files, absent) ==
    IF \E i \in 1..Len(files) : files[i] \in absent
    THEN LET i == CHOOSE i \in 1..Len(files) :
                    /\ files[i] \in absent
                    /\ \A j \in (i + 1)..Len(files) : files[j] \notin absent
         IN FileNotFound(files[i])
    ELSE NoExc

\* _validate_parquet_files: the exception it raises, NoExc when every file exists.
validate_parquet_files(files, absent) ==
    IF \E i \in 1..Len(files) : files[i] \in absent
    THEN LET i == CHOOSE i \in 1..Len(files) :
                    /\ files[i] \in absent
                    /\ \A j \in 1..(i - 1) : files[j] \notin absent
         IN FileNotFound(files[i])
    ELSE NoExc

QueryValidate ==
    /\ plugin = "query" /\ pc = "validate"
    /\ LET e == validate_parquet_files(args.parquet_files, missing)
       IN IF e # NoExc
          THEN /\ outcome' = Raise(e)
               /\ pc' = "done"
               /\ UNCHANGED parquet_files
          ELSE /\ parquet_files' = args.parquet_files
               /\ pc' = "connect"
               /\ UNCHANGED outcome
    /\ UNCHANGED << plugin, args, missing, directories, conns, conn, idx, table_names, assigned,
                    views, executed, result, serialized_rows, result_json,
                    files_info, exc, retval >>

\* conn = duckdb.connect(":memory:"); table_names = set()
QueryConnect ==
    /\ plugin = "query" /\ pc = "connect"
    /\ conns' = Append(conns, "open")
    /\ conn' = Len(conns) + 1
    /\ table_names' = {}
    /\ pc' = "normalize"
    /\ UNCHANGED << plugin, args, missing, directories, parquet_files, idx, assigned, views,
                    executed, result, serialized_rows, result_json, files_info,
                    exc, retval, outcome >>

\* Path.cwd() raises FileNotFoundError when the working directory is gone.
CwdGone == Exc("FileNotFoundError", "[Errno 2] No such file or directory")

QueryNormalize ==
    /\ plugin = "query" /\ pc = "normalize"
    /\ \E cwd_exists \in BOOLEAN :
          IF cwd_exists
          THEN /\ parquet_files' =
                      [i \in 1..Len(parquet_files) |-> NormalizePath(parquet_files[i], cwd)]
               /\ idx' = 1
               /\ pc' = IF Len(parquet_files) = 0 THEN "execute" ELSE "register"
               /\ UNCHANGED exc
          ELSE /\ exc' = CwdGone
               /\ pc' = "except"
               /\ UNCHANGED << parquet_files, idx >>
    /\ UNCHANGED << plugin, args, missing, directories, conns, conn, table_names, assigned, views,
                    executed, result, serialized_rows, result_json, files_info,
                    retval, outcome >>

\* A mutant of the naming loop: the counter is never tried again after a hit.
RECURSIVE NameLoopOnce(_, _, _, _)
NameLoopOnce(base_name, table_name, counter, names) ==
    IF table_name \in names /\ counter = 1
    THEN NameLoopOnce(base_name, base_name \o "_" \o ToString(counter), counter + 1, names)
    ELSE table_name

\* The while loop of parquet_tools.py:129-131.
RECURSIVE NameLoop(_, _, _, _)
NameLoop(base_name, table_name, counter, names) ==
    IF table_name \in names
    THEN NameLoop(base_name, base_name \o "_" \o ToString(counter), counter + 1, names)
    ELSE table_name

\* One turn of the registration loop: the name, table_names.add, CREATE VIEW.
QueryRegister ==
    /\ plugin = "query" /\ pc = "register"
    /\ LET file_path == parquet_files[idx]
           base_name == stem(Path(file_path))
           table_name == NameLoop(base_name, base_name, 1, table_names)
       IN /\ table_names' = table_names \cup {table_name}
          /\ assigned' = Append(assigned, table_name)
          /\ \/ /\ args.parquet_files[idx] \notin directories
                /\ views' = views \cup {table_name}
                /\ idx' = idx + 1
                /\ pc' = IF idx = Len(parquet_files) THEN "execute" ELSE "register"
                /\ UNCHANGED exc
             \/ /\ \E msg \in ErrTexts \cup {NoFilesFound} :
                      /\ msg = NoFilesFound <=> args.parquet_files[idx] \in directories
                      /\ exc' = EngineError(msg)
                /\ pc' = "except"
                /\ UNCHANGED << views, idx >>
    /\ UNCHANGED << plugin, args, missing, directories, conns, conn, parquet_files, executed,
                    result, serialized_rows, result_json, files_info, retval, outcome >>

\* conn.execute(query).fetchall()
QueryExecute ==
    /\ plugin = "query" /\ pc = "execute"
    /\ executed' = TRUE
    /\ \/ /\ \E rows \in SeqsUpTo(RowPool, MaxRows) : result' = rows
          /\ pc' = "serialize"
          /\ UNCHANGED exc
       \/ /\ \E msg \in ErrTexts : exc' = EngineError(msg)
          /\ pc' = "except"
          /\ UNCHANGED result
    /\ UNCHANGED << plugin, args, missing, directories, conns, conn, parquet_files, idx,
                    table_names, assigned, views, serialized_rows, result_json,
                    files_info, retval, outcome >>

\* Python's seq[:n].
SliceTo(q, n) ==
    IF n >= 0 THEN SubSeq(q, 1, IF n < Len(q) THEN n ELSE Len(q))
    ELSE SubSeq(q, 1, Max(0, Len(q) + n))

\* parquet_tools.py:144-145
apply_limit(rows, limit) ==
    IF Len(rows) > limit THEN SliceTo(rows, limit) ELSE rows

NotSerializable == Exc("TypeError", "Object of type date is not JSON serializable")

\* Serialization, the limit, json.dumps and the budget (parquet_tools.py:139-148).
QuerySerialize ==
    /\ plugin = "query" /\ pc = "serialize"
    /\ LET rows == apply_limit(serialize_datetime(List(result)).items, args.limit)
       IN /\ serialized_rows' = rows
          /\ IF JsonSerializable(List(rows))
             THEN /\ result_json' = dumps(List(rows))
                  /\ retval' = enforce_token_limit(dumps(List(rows)), "query_parquet_files")
                  /\ pc' = "finally"
                  /\ UNCHANGED exc
             ELSE /\ exc' = NotSerializable
                  /\ pc' = "except"
                  /\ UNCHANGED << result_json, retval >>
    /\ UNCHANGED << plugin, args, missing, directories, conns, conn, parquet_files, idx,
                    table_names, assigned, views, executed, result, files_info, outcome >>

available_tables(names) == IF names = {} THEN {"None"} ELSE names

Report(prefix, error_msg, query, names) ==
    [cls |-> "RuntimeError", prefix |-> prefix, msg |-> error_msg, pad |-> 0,
     query |-> query, tables |-> available_tables(names)]

\* A mutant of the categorisation: the table test comes first.
categorize_table_first(error_msg, query, names) ==
    IF Contains(lower(error_msg), "catalog") \/ Contains(lower(error_msg), "table")
    THEN Report("Table reference error", error_msg, query, names)
    ELSE IF Contains(lower(error_msg), "syntax error") \/ Contains(lower(error_msg), "parser error")
    THEN Report("SQL syntax error in query", error_msg, query, names)
    ELSE Report("Query execution failed", error_msg, query, names)

\* The `except Exception` clause of query_parquet_files.
categorize(error_msg, query, names) ==
    IF Contains(lower(error_msg), "syntax error") \/ Contains(lower(error_msg), "parser error")
    THEN Report("SQL syntax error in query", error_msg, query, names)
    ELSE IF Contains(lower(error_msg), "catalog") \/ Contains(lower(error_msg), "table")
    THEN Report("Table reference error", error_msg, query, names)
    ELSE Report("Query execution failed", error_msg, query, names)

QueryExcept ==
    /\ plugin = "query" /\ pc = "except"
    /\ exc' = IF exc.cls = "FileNotFoundError" THEN exc
              ELSE categorize(exc.msg, args.query, table_names)
    /\ pc' = "finally"
    /\ UNCHANGED << plugin, args, missing, directories, conns, conn, parquet_files, idx,
                    table_names, assigned, views, executed, result, serialized_rows,
                    result_json, files_info, retval, outcome >>

\* A mutant of the finally clause: the connection is closed only on success.
QueryFinallyOnSuccessOnly ==
    /\ plugin = "query" /\ pc = "finally"
    /\ conns' = IF exc = NoExc THEN [conns EXCEPT ![conn] = "closed"] ELSE conns
    /\ outcome' = IF exc = NoExc THEN Return(retval) ELSE Raise(exc)
    /\ pc' = "done"
    /\ UNCHANGED << plugin, args, missing, directories, conn, parquet_files, idx, table_names,
                    assigned, views, executed, result, serialized_rows, result_json,
                    files_info, exc, retval >>

\* finally: conn.close(); then the return or the raise takes effect.
QueryFinally ==
    /\ plugin = "query" /\ pc = "finally"
    /\ conns' = [conns EXCEPT ![conn] = "closed"]
    /\ outcome' = IF exc = NoExc THEN Return(retval) ELSE Raise(exc)
    /\ pc' = "done"
    /\ UNCHANGED << plugin, args, missing, directories, conn, parquet_files, idx, table_names,
                    assigned, views, executed, result, serialized_rows, result_json,
                    files_info, exc, retval >>

(***************************************************************************)
(* get_schema                                                              *)
(***************************************************************************)
Column(name, type) == Dict(<< KV("name", name), KV("type", Str(type)) >>)

\* result.description of the zero-row probe, as the schema list built from it.
Descriptions ==
    { << Column(Str("id"), "BIGINT") >>,
      << Column(Str("id"), "BIGINT"), Column(Str("ts"), "TIMESTAMP") >>,
      << Column(LongStr("c", 16000), "VARCHAR") >> }

RowCounts == {0, 7}

SchemaCall ==
    /\ plugin = "idle"
    /\ \E f \in FilePool :
          /\ args' = [parquet_file |-> f]
          /\ \E m \in SUBSET {f} :
                /\ missing' = m
                /\ \E d \in SUBSET (({f} \cap DirPool) \ m) : directories' = d
    /\ plugin' = "schema"
    /\ pc' = "validate"
    /\ UNCHANGED << conns, conn, parquet_files, idx, table_names, assigned, views,
                    executed, result, serialized_rows, result_json, files_info,
                    exc, retval, outcome >>

\* The existence check of get_schema; the local parquet_file is kept as the
\* one-element parquet_files.
SchemaValidate ==
    /\ plugin = "schema" /\ pc = "validate"
    /\ IF args.parquet_file \in missing
       THEN /\ outcome' = Raise(FileNotFound(args.parquet_file))
            /\ pc' = "done"
            /\ UNCHANGED parquet_files
       ELSE /\ parquet_files' = << args.parquet_file >>
            /\ pc' = "connect"
            /\ UNCHANGED outcome
    /\ UNCHANGED << plugin, args, missing, directories, conns, conn, idx, table_names, assigned,
                    views, executed, result, serialized_rows, result_json,
                    files_info, exc, retval >>

SchemaConnect ==
    /\ plugin = "schema" /\ pc = "connect"
    /\ conns' = Append(conns, "open")
    /\ conn' = Len(conns) + 1
    /\ pc' = "probe"
    /\ UNCHANGED << plugin, args, missing, directories, parquet_files, idx, table_names, assigned,
                    views, executed, result, serialized_rows, result_json,
                    files_info, exc, retval, outcome >>

NoRowCount == Exc("RuntimeError", "Failed to read row count from parquet file")

schema_info(parquet_file, row_count, schema) ==
    Dict(<< KV("file", Str(parquet_file)),
            KV("row_count", Int_(row_count)),
            KV("columns", List(schema)) >>)

\* The try body of get_schema: the path, the two probes, the budget.
SchemaProbe ==
    /\ plugin = "schema" /\ pc = "probe"
    /\ \/ /\ exc' = CwdGone
          /\ pc' = "except"
          /\ UNCHANGED << parquet_files, result_json, retval >>
       \/ /\ parquet_files' = << NormalizePath(parquet_files[1], cwd) >>
          /\ \/ /\ \E msg \in ErrTexts \cup {NoFilesFound} :
                      /\ msg = NoFilesFound <=> args.parquet_file \in directories
                      /\ exc' = EngineError(msg)
                /\ pc' = "except"
                /\ UNCHANGED << result_json, retval >>
             \/ /\ args.parquet_file \notin directories
                /\ exc' = NoRowCount
                /\ pc' = "except"
                /\ UNCHANGED << result_json, retval >>
             \/ /\ args.parquet_file \notin directories
                /\ \E schema \in Descriptions, row_count \in RowCounts :
                     LET text == dumps(schema_info(NormalizePath(parquet_files[1], cwd),
                                                   row_count, schema))
                     IN /\ result_json' = text
                        /\ retval' = enforce_token_limit(text, "get_schema")
                /\ pc' = "finally"
                /\ UNCHANGED exc
    /\ UNCHANGED << plugin, args, missing, directories, conns, conn, idx, table_names, assigned,
                    views, executed, result, serialized_rows, files_info, outcome >>

SchemaFailure(e, parquet_file) ==
    [cls |-> "RuntimeError", prefix |-> "Failed to extract schema from parquet file",
     msg |-> e.msg, pad |-> e.pad, file |-> parquet_file]

SchemaExcept ==
    /\ plugin = "schema" /\ pc = "except"
    /\ exc' = IF exc.cls = "FileNotFoundError" THEN exc
              ELSE SchemaFailure(exc, parquet_files[1])
    /\ pc' = "finally"
    /\ UNCHANGED << plugin, args, missing, directories, conns, conn, parquet_files, idx,
                    table_names, assigned, views, executed, result, serialized_rows,
                    result_json, files_info, retval, outcome >>

SchemaFinally ==
    /\ plugin = "schema" /\ pc = "finally"
    /\ conns' = [conns EXCEPT ![conn] = "closed"]
    /\ outcome' = IF exc = NoExc THEN Return(retval) ELSE Raise(exc)
    /\ pc' = "done"
    /\ UNCHANGED << plugin, args, missing, directories, conn, parquet_files, idx, table_names,
                    assigned, views, executed, result, serialized_rows, result_json,
                    files_info, exc, retval >>

(***************************************************************************)
(* list_tables_in_directory                                                *)
(***************************************************************************)
Directories == {"/work/data", "data"}

\* The names dir_path.glob("*.parquet") may yield, in any order, each once.
NamePool == {"a.parquet", "b.parquet", "c.parquet"}

Matches ==
    {q \in SeqsUpTo(NamePool, MaxFiles) : \A i, j \in 1..Len(q) : i # j => q[i] # q[j]}

\* fetchone()[0] and len(result.description) of a readable file.
ProbeResults == {[row_count |-> 0, column_count |-> 1], [row_count |-> 7, column_count |-> 3]}

\* Engine failures on an unreadable file; the second carries a long message.
ProbeErrors ==
    { [cls |-> "duckdb.Error", msg |-> "Invalid Input Error: No magic bytes found", pad |-> 0],
      [cls |-> "duckdb.Error", msg |-> "IO Error: Cannot open file", pad |-> 20000] }

ListCall ==
    /\ plugin = "idle"
    /\ \E d \in Directories :
          /\ args' = [directory |-> d]
          /\ \E m \in SUBSET {d} :
                /\ missing' = m
                /\ \E ds \in SUBSET ({d} \ m) : directories' = ds
    /\ plugin' = "list"
    /\ pc' = "validate"
    /\ UNCHANGED << conns, conn, parquet_files, idx, table_names, assigned, views,
                    executed, result, serialized_rows, result_json, files_info,
                    exc, retval, outcome >>

\* The directory checks, Path.cwd() and the glob.
ListValidate ==
    /\ plugin = "list" /\ pc = "validate"
    /\ IF args.directory \in missing
       THEN /\ outcome' = Raise(Exc("FileNotFoundError",
                                    "Directory not found: " \o args.directory))
            /\ pc' = "done"
            /\ UNCHANGED << parquet_files, idx >>
       ELSE \/ /\ args.directory \notin directories
               /\ outcome' = Raise(Exc("ValueError",
                                       "Path is not a directory: " \o args.directory))
               /\ pc' = "done"
               /\ UNCHANGED << parquet_files, idx >>
            \/ /\ args.directory \in directories
               /\ outcome' = Raise(CwdGone)
               /\ pc' = "done"
               /\ UNCHANGED << parquet_files, idx >>
            \/ /\ args.directory \in directories
               /\ \E names \in Matches :
                    /\ parquet_files' =
                          [i \in 1..Len(names) |->
                              PathStr(JoinPath(Path(args.directory), Path(names[i])))]
                    /\ pc' = IF Len(names) = 0 THEN "finish" ELSE "connect"
               /\ idx' = 1
               /\ UNCHANGED outcome
    /\ UNCHANGED << plugin, args, missing, directories, conns, conn, table_names, assigned, views,
                    executed, result, serialized_rows, result_json, files_info,
                    exc, retval >>

\* conn = duckdb.connect(":memory:") for the file at hand.
ListConnect ==
    /\ plugin = "list" /\ pc = "connect"
    /\ conns' = Append(conns, "open")
    /\ conn' = Len(conns) + 1
    /\ pc' = "probe"
    /\ UNCHANGED << plugin, args, missing, directories, parquet_files, idx, table_names, assigned,
                    views, executed, result, serialized_rows, result_json,
                    files_info, exc, retval, outcome >>

success_entry(file_path, probe) ==
    Dict(<< KV("filename", Str(PathName(Path(file_path)))),
            KV("path", Str(file_path)),
            KV("row_count", Int_(probe.row_count)),
            KV("column_count", Int_(probe.column_count)) >>)

error_entry(file_path, e) ==
    Dict(<< KV("filename", Str(PathName(Path(file_path)))),
            KV("path", Str(file_path)),
            KV("error", LongStr(e.msg, e.pad)) >>)

\* A mutant of the probe: a failing file ends the loop.
ListProbeAbortOnFailure ==
    /\ plugin = "list" /\ pc = "probe"
    /\ LET file_path == parquet_files[idx]
       IN \/ /\ \E probe \in ProbeResults :
                   files_info' = Append(files_info, success_entry(file_path, probe))
             /\ conns' = [conns EXCEPT ![conn] = "closed"]
             /\ pc' = IF idx = Len(parquet_files) THEN "finish" ELSE "connect"
          \/ /\ \E e \in ProbeErrors \cup {NoRowCount} :
                   files_info' = Append(files_info, error_entry(file_path, e))
             /\ pc' = "finish"
             /\ UNCHANGED conns
    /\ idx' = idx + 1
    /\ UNCHANGED << plugin, args, missing, directories, conn, parquet_files, table_names, assigned,
                    views, executed, result, serialized_rows, result_json, exc,
                    retval, outcome >>

\* The rest of the try statement for one file: the two probes, then either
\* conn.close() and the entry, or the except clause's error entry.
ListProbe ==
    /\ plugin = "list" /\ pc = "probe"
    /\ LET file_path == parquet_files[idx]
       IN \/ /\ \E probe \in ProbeResults :
                   files_info' = Append(files_info, success_entry(file_path, probe))
             /\ conns' = [conns EXCEPT ![conn] = "closed"]
          \/ /\ \E e \in ProbeErrors \cup {NoRowCount} :
                   files_info' = Append(files_info, error_entry(file_path, e))
             /\ UNCHANGED conns
    /\ idx' = idx + 1
    /\ pc' = IF idx = Len(parquet_files) THEN "finish" ELSE "connect"
    /\ UNCHANGED << plugin, args, missing, directories, conn, parquet_files, table_names, assigned,
                    views, executed, result, serialized_rows, result_json, exc,
                    retval, outcome >>

\* json.dumps(files_info) and the budget; the call returns.
ListFinish ==
    /\ plugin = "list" /\ pc = "finish"
    /\ result_json' = dumps(List(files_info))
    /\ outcome' = Return(enforce_token_limit(dumps(List(files_info)),
                                             "list_tables_in_directory"))
    /\ pc' = "done"
    /\ UNCHANGED << plugin, args, missing, directories, conns, conn, parquet_files, idx,
                    table_names, assigned, views, executed, result, serialized_rows,
                    files_info, exc, retval >>

\* The except clause of the probe never closes the connection: the object is
\* released only by the interpreter, some time after the last reference to it
\* is gone (conn is rebound by the next connect, or the call is over).
Collect ==
    /\ plugin = "list"
    /\ \E i \in 1..Len(conns) :
          /\ conns[i] = "open"
          /\ i # conn \/ pc = "done"
          /\ conns' = [conns EXCEPT ![i] = "closed"]
    /\ UNCHANGED << plugin, pc, args, missing, directories, conn, parquet_files, idx, table_names,
                    assigned, views, executed, result, serialized_rows, result_json,
                    files_info, exc, retval, outcome >>

\* The call is over; the next call starts from a fresh state.
Done ==
    /\ pc = "done"
    /\ plugin' = "idle"
    /\ pc' = "idle"
    /\ args' = NoArgs
    /\ missing' = {}
    /\ directories' = {}
    /\ conns' = << >>
    /\ conn' = 0
    /\ parquet_files' = << >>
    /\ idx' = 0
    /\ table_names' = {}
    /\ assigned' = << >>
    /\ views' = {}
    /\ executed' = FALSE
    /\ result' = << >>
    /\ serialized_rows' = << >>
    /\ result_json' = NoText
    /\ files_info' = << >>
    /\ exc' = NoExc
    /\ retval' = NoText
    /\ outcome' = NoOutcome

Next ==
    \/ QueryCall \/ QueryValidate \/ QueryConnect \/ QueryNormalize
    \/ QueryRegister \/ QueryExecute \/ QuerySerialize \/ QueryExcept
    \/ QueryFinally
    \/ SchemaCall \/ SchemaValidate \/ SchemaConnect \/ SchemaProbe
    \/ SchemaExcept \/ SchemaFinally
    \/ ListCall \/ ListValidate \/ ListConnect \/ ListProbe \/ ListFinish
    \/ Collect
    \/ Done

Spec == Init /\ [][Next]_vars

(***************************************************************************)
(* _enforce_token_limit on its own: payloads whose length lies around the  *)
(* budget, as arrays (the query and listing plugins) and as an object      *)
(* (get_schema).                                                           *)
(***************************************************************************)
Slack == 4

BudgetChars == TOKEN_LIMIT * average_chars_per_token

Contexts == {"query_parquet_files", "get_schema", "list_tables_in_directory"}

Fillers == (BudgetChars - 20 - Slack)..(BudgetChars + Slack)

\* json.dumps of n strings, the first of them long enough for the text to
\* have `chars` characters.
ArrayOfChars(n, chars) ==
    LET rows(pad) == [i \in 1..n |-> IF i = 1 THEN LongStr("r", pad) ELSE Str("r")]
    IN dumps(List(rows(chars - JsonChars(List(rows(0)), 0))))

\* Larger results: their row counts and the token estimates of their texts.
ArraySizes == {3, 10, 77}

Estimates == {TOKEN_LIMIT + 1, 8000, 9625}

Payloads ==
    {dumps(List(<< >>))}
    \cup {dumps(List(<< LongStr("r", n) >>)) : n \in Fillers}
    \cup {dumps(List(<< Str("r"), LongStr("s", n) >>)) : n \in Fillers}
    \cup {dumps(Dict(<< KV("file", LongStr("f", n)) >>)) : n \in Fillers}
    \cup {ArrayOfChars(n, average_chars_per_token * t - d) :
              n \in ArraySizes, t \in Estimates, d \in 0..(average_chars_per_token - 1)}

PureLocals ==
    /\ missing = {}
    /\ directories = {}
    /\ Locals0

InitEnforce ==
    /\ plugin = "enforce"
    /\ pc = "call"
    /\ args \in [payload : Payloads, context : Contexts]
    /\ PureLocals

EnforceApply ==
    /\ plugin = "enforce" /\ pc = "call"
    /\ outcome' = Return(enforce_token_limit(args.payload, args.context))
    /\ pc' = "done"
    /\ UNCHANGED << plugin, args, missing, directories, conns, conn, parquet_files, idx,
                    table_names, assigned, views, executed, result, serialized_rows,
                    result_json, files_info, exc, retval >>

SpecEnforce == InitEnforce /\ [][EnforceApply]_vars

(***************************************************************************)
(* _serialize_datetime on its own: query results whose cells are scalars,  *)
(* one-element lists and one-entry mappings.                               *)
(***************************************************************************)
Scalars ==
    { Int_(7), Str("x"), Null, Bool(TRUE),
      DateTime(2024, 1, 2, 3, 4, 5, 0), DateTime(2024, 11, 12, 13, 14, 15, 120),
      Date(2024, 1, 2), Time(3, 4, 5, 0) }

Cells ==
    Scalars \cup {List(<< x >>) : x \in Scalars} \cup {Dict(<< KV("k", x) >>) : x \in Scalars}

SerializerRows == {Dict(<< KV("id", Int_(1)), KV("v", c) >>) : c \in Cells}

InitSerialize ==
    /\ plugin = "serialize"
    /\ pc = "call"
    /\ \E rows \in SeqsUpTo(SerializerRows, MaxRows) : args = [obj |-> List(rows)]
    /\ PureLocals

SerializeApply ==
    /\ plugin = "serialize" /\ pc = "call"
    /\ outcome' = Return(serialize_datetime(args.obj))
    /\ pc' = "done"
    /\ UNCHANGED << plugin, args, missing, directories, conns, conn, parquet_files, idx,
                    table_names, assigned, views, executed, result, serialized_rows,
                    result_json, files_info, exc, retval >>

SpecSerialize == InitSerialize /\ [][SerializeApply]_vars

(***************************************************************************)
(* The path normalisation on its own, over path strings built from a few   *)
(* components (empty, "." and ".." among them) and two working directories.*)
(***************************************************************************)
MaxParts == 3

Components == {"work", "work2", "proj", "a.parquet", "", ".", ".."}

PathInputs ==
    {lead \o Join(q, "/") : lead \in {"", "/"}, q \in SeqsUpTo(Components, MaxParts)}

WorkingDirs == {"/work", "/work/proj"}

InitNormalize ==
    /\ plugin = "normalize"
    /\ pc = "call"
    /\ args \in [file_path : PathInputs, cwd : WorkingDirs]
    /\ PureLocals

NormalizeApply ==
    /\ plugin = "normalize" /\ pc = "call"
    /\ outcome' = Return(NormalizePath(args.file_path, Path(args.cwd)))
    /\ pc' = "done"
    /\ UNCHANGED << plugin, args, missing, directories, conns, conn, parquet_files, idx,
                    table_names, assigned, views, executed, result, serialized_rows,
                    result_json, files_info, exc, retval >>

SpecNormalize == InitNormalize /\ [][NormalizeApply]_vars


(***************************************************************************)
(* The claims.                                                             *)
(***************************************************************************)
AllClosed == \A i \in 1..Len(conns) : conns[i] = "closed"

CallOver == outcome.kind # "none"

\* C1: once a query_parquet_files or get_schema call has returned or raised,
\* every engine connection the call opened is closed, whatever the exit path
\* (success, budget overflow, categorised engine failure, re-raised
\* FileNotFoundError, failure during table registration).
C1_ConnectionsClosedOnExit ==
    (plugin \in {"query", "schema"} /\ CallOver) => (pc = "done" /\ AllClosed)

\* C1 witness: a query call that failed while registering a table has raised,
\* and the one connection it opened is closed.
C1_Witness ==
    /\ plugin = "query" /\ CallOver
    /\ outcome.kind = "raise" /\ outcome.exc.cls = "RuntimeError"
    /\ ~executed
    /\ conns = << "closed" >>

\* C2: in list_tables_in_directory the connection opened for a file is closed
\* before the next file is probed and before the call returns, when the probe
\* succeeds and when it fails.
C2_ProbeConnectionClosed ==
    (plugin = "list" /\ pc \in {"connect", "finish", "done"}) => AllClosed

\* C3: _enforce_token_limit returns the payload unchanged iff ceil(L/3) <= 5000;
\* otherwise it returns an OverflowReport whose estimated_tokens is ceil(L/3)
\* and whose token_limit is 5000, holding none of the payload's content.
C3_BudgetDecision ==
    (plugin = "enforce" /\ pc = "done") =>
        LET payload == args.payload
            L == payload.chars
            r == outcome.value
            \* ceil(L/3) <= 5000 iff L <= 3 * 5000
            fits == L <= 3 * 5000
        IN /\ fits <=> (r = payload)
           /\ ~fits =>
                /\ IsOverflowReport(r)
                /\ Keys(r.doc) = << "error", "context", "estimated_tokens", "token_limit",
                                    "rows_returned", "suggested_limit", "suggestion" >>
                /\ LET t == Get(r.doc, "estimated_tokens").v
                   IN 3 * t >= L /\ 3 * (t - 1) < L
                /\ Get(r.doc, "token_limit") = Int_(5000)
                /\ Get(r.doc, "context") = Str(args.context)
                /\ \A i \in 1..Len(r.doc.items) :
                      /\ r.doc.items[i].v # payload.doc
                      /\ r.doc.items[i].v.t \in {"str", "int", "null"}
                      /\ r.doc.items[i].v.t = "str" => r.doc.items[i].v.pad = 0
                /\ r.chars < L

\* C3 witness: a payload one character over the budget was replaced by a report.
C3_Witness ==
    /\ plugin = "enforce" /\ pc = "done"
    /\ args.payload.chars = 15001
    /\ IsOverflowReport(outcome.value)
    /\ Get(outcome.value.doc, "estimated_tokens") = Int_(5001)

\* The name the claim expects for the i-th file, from the names given before it.
ExpectedName(i) ==
    LET base == stem(Path(args.parquet_files[i]))
        used == {assigned[j] : j \in 1..(i - 1)}
    IN IF base \notin used THEN base
       ELSE LET k == CHOOSE k \in 1..i :
                        /\ (base \o "_" \o ToString(k)) \notin used
                        /\ \A j \in 1..(k - 1) : (base \o "_" \o ToString(j)) \in used
            IN base \o "_" \o ToString(k)

\* C4: the table names assigned within one query_parquet_files call are pairwise
\* distinct; the i-th name is the i-th file's base name without extension, or
\* that name followed by _k for the smallest k >= 1 not yet used; names are
\* assigned in input order; [a.parquet, a.parquet, b.parquet] gives [a, a_1, b].
C4_TableNames ==
    plugin = "query" =>
        /\ Len(assigned) <= Len(args.parquet_files)
        /\ \A i, j \in 1..Len(assigned) : i # j => assigned[i] # assigned[j]
        /\ \A i \in 1..Len(assigned) : assigned[i] = ExpectedName(i)
        /\ table_names = Range(assigned)
        /\ (args.parquet_files = << "a.parquet", "a.parquet", "/tmp/b.parquet" >>
              /\ Len(assigned) = 3) => assigned = << "a", "a_1", "b" >>

\* C4 witness: a base name that already ends in a numeric suffix came first, so
\* the second duplicate of a had to skip a_1.
C4_Witness ==
    /\ plugin = "query"
    /\ args.parquet_files = << "/work/a_1.parquet", "a.parquet", "a.parquet" >>
    /\ assigned = << "a_1", "a", "a_2" >>

Min(a, b) == IF a <= b THEN a ELSE b

\* C5: for a successful query with n rows and any caller-supplied limit, the
\* payload handed to budget enforcement is the first `limit` serialized rows in
\* engine order (all n rows when n <= limit), never more than `limit` rows, and
\* the budget is evaluated on that truncated payload.  (A negative limit is
\* read as asking for no rows.)
C5_LimitBeforeBudget ==
    (/\ plugin = "query"
     /\ \/ (pc = "finally" /\ exc = NoExc)
        \/ (pc = "done" /\ outcome.kind = "return")) =>
        LET all == serialize_datetime(List(result)).items
            n == Len(all)
        IN /\ Len(serialized_rows) <= Max(args.limit, 0)
           /\ serialized_rows = SubSeq(all, 1, Min(n, Max(args.limit, 0)))
           /\ result_json = dumps(List(serialized_rows))
           /\ retval = enforce_token_limit(result_json, "query_parquet_files")

\* C6: every engine failure during query_parquet_files is raised as exactly one
\* of three reports chosen from the lower-cased error text: 'syntax error' or
\* 'parser error' -> SQL syntax error; else 'catalog' or 'table' -> table
\* reference error; else generic execution error.  A text matching both tests
\* is a syntax error, and every report carries the query text and the
\* table-name list.
C6_Categories ==
    /\ (plugin = "query" /\ pc \in {"finally", "done"}) =>
            exc.cls \in {"none", "FileNotFoundError", "RuntimeError"}
    /\ (plugin = "query" /\ CallOver /\ outcome.kind = "raise"
          /\ outcome.exc.cls = "RuntimeError") =>
        LET r == outcome.exc
            text == lower(r.msg)
            syntax == Contains(text, "syntax error") \/ Contains(text, "parser error")
            table == Contains(text, "catalog") \/ Contains(text, "table")
        IN /\ r.prefix \in {"SQL syntax error in query", "Table reference error",
                            "Query execution failed"}
           /\ (r.prefix = "SQL syntax error in query") <=> syntax
           /\ (r.prefix = "Table reference error") <=> (~syntax /\ table)
           /\ (r.prefix = "Query execution failed") <=> (~syntax /\ ~table)
           /\ r.msg = "Parser Error: syntax error at or near TABLE"
                 => r.prefix = "SQL syntax error in query"
           /\ r.msg = "Catalog Error: Table with name sales does not exist!"
                 => r.prefix = "Table reference error"
           /\ r.msg = "Binder Error: Referenced column x not found in FROM clause!"
                 => r.prefix = "Query execution failed"
           /\ r.query = args.query
           /\ r.tables = (IF table_names = {} THEN {"None"} ELSE table_names)

\* C6 witness: the engine rejected the query with a text that matches both the
\* syntax test and the table test, and the call raised the syntax report.
C6_Witness ==
    /\ plugin = "query" /\ CallOver /\ executed
    /\ outcome.kind = "raise"
    /\ outcome.exc.cls = "RuntimeError"
    /\ outcome.exc.msg = "Parser Error: syntax error at or near TABLE"
    /\ outcome.exc.prefix = "SQL syntax error in query"

\* The files the call was given, as a sequence.
GivenFiles ==
    IF plugin = "query" THEN args.parquet_files ELSE << args.parquet_file >>

\* C7: if a file given to query_parquet_files or get_schema does not exist, the
\* call raises a file-not-found failure naming the first missing path in input
\* order, before any connection is opened, any table registered or any query
\* executed, and never as a categorised execution error.
C7_MissingFile ==
    (plugin \in {"query", "schema"} /\ pc # "validate"
       /\ \E i \in 1..Len(GivenFiles) : GivenFiles[i] \in missing) =>
        LET first == CHOOSE i \in 1..Len(GivenFiles) :
                        /\ GivenFiles[i] \in missing
                        /\ \A j \in 1..(i - 1) : GivenFiles[j] \notin missing
        IN /\ pc = "done"
           /\ outcome = Raise(Exc("FileNotFoundError",
                                  "Parquet file not found: " \o GivenFiles[first]))
           /\ conns = << >> /\ conn = 0
           /\ table_names = {} /\ views = {} /\ assigned = << >>
           /\ ~executed

\* C7 witness: the first file exists, the second and a different third do not,
\* and the call has raised.
C7_Witness ==
    /\ plugin = "query" /\ CallOver
    /\ Len(args.parquet_files) = 3
    /\ args.parquet_files[1] \notin missing
    /\ args.parquet_files[2] \in missing
    /\ args.parquet_files[3] \in missing
    /\ args.parquet_files[2] # args.parquet_files[3]
    /\ outcome.exc.cls = "FileNotFoundError"

\* What C8 says of the listing at every point of a call that got past the
\* directory checks: one entry per file already handled, in enumeration order,
\* each either a success entry or an error entry, and the call returns.
C8_Entries ==
    (plugin = "list" /\ pc \in {"connect", "probe", "finish", "done"}
       /\ (pc = "done" => outcome.kind = "return")) =>
        LET k == Len(parquet_files)
        IN /\ Len(files_info) = (IF pc \in {"finish", "done"} THEN k ELSE idx - 1)
           /\ \A i \in 1..Len(files_info) :
                 LET entry == files_info[i]
                 IN /\ Get(entry, "path") = Str(parquet_files[i])
                    /\ Get(entry, "filename").v \in NamePool
                    /\ parquet_files[i] = args.directory \o "/" \o Get(entry, "filename").v
                    /\ \/ Keys(entry) = << "filename", "path", "row_count", "column_count" >>
                       \/ Keys(entry) = << "filename", "path", "error" >>
           /\ pc = "done" =>
                 /\ result_json = dumps(List(files_info))
                 /\ \/ outcome.value = result_json
                    \/ /\ IsOverflowReport(outcome.value)
                       /\ Get(outcome.value.doc, "rows_returned") = Int_(k)

\* What C8 says of every step of the listing: entries are only ever appended,
\* the probe of a file appends exactly one and moves on, and nothing raises.
C8_Step ==
    (plugin = "list" /\ plugin' = "list") =>
        /\ Len(files_info') >= Len(files_info)
        /\ SubSeq(files_info', 1, Len(files_info)) = files_info
        /\ (pc = "probe" /\ pc' # "probe") =>
              /\ Len(files_info') = Len(files_info) + 1
              /\ pc' = (IF idx = Len(parquet_files) THEN "finish" ELSE "connect")
        /\ pc \in {"connect", "probe", "finish"} => outcome'.kind # "raise"

\* C8: for an existing directory with k matching files the listing has exactly k
\* entries in enumeration order, whatever probes fail: a failing file gives an
\* entry with filename, path and error and no counts, a readable file gives an
\* entry with row_count and column_count and no error, and a failing file
\* neither aborts the call nor removes or alters the entries of other files.
\* (The entries are those of the listing handed to the token budget.)
C8_ListingIsolation == [](C8_Entries) /\ [][C8_Step]_vars

\* C8 witness: three files, the first and the last unreadable, the middle one
\* readable; the call returned the listing itself.
C8_Witness ==
    /\ plugin = "list" /\ pc = "done" /\ outcome.kind = "return"
    /\ Len(files_info) = 3
    /\ HasKey(files_info[1], "error")
    /\ HasKey(files_info[2], "row_count") /\ HasKey(files_info[2], "column_count")
    /\ HasKey(files_info[3], "error")
    /\ outcome.value = result_json

\* What the serializer is claimed to do to one value.
RECURSIVE Conforms(_, _)
Conforms(in, out) ==
    CASE IsTemporal(in) -> out = Str(isoformat(in))
      [] in.t = "dict" ->
            /\ out.t = "dict"
            /\ Keys(out) = Keys(in)
            /\ \A i \in 1..Len(in.items) : Conforms(in.items[i].v, out.items[i].v)
      [] in.t = "list" ->
            /\ out.t = "list"
            /\ Len(out.items) = Len(in.items)
            /\ \A i \in 1..Len(in.items) : Conforms(in.items[i], out.items[i])
      [] OTHER -> out = in

\* C9: the serializer replaces every scalar temporal value (date, time and
\* timestamp alike) by its ISO-8601 string and leaves every other scalar equal,
\* with the same keys in the same order and the same sequence lengths and order.
C9_TemporalToIso ==
    (plugin = "serialize" /\ pc = "done") => Conforms(args.obj, outcome.value)

\* C10: path normalisation: an absolute path under cwd becomes a relative path R
\* with join(cwd, R) = P; an absolute path not under cwd is returned unchanged;
\* a relative path is returned unchanged; 'under cwd' is by whole components,
\* so /work2/x is outside /work.  (Paths are compared as pathlib compares them;
\* a relative input is returned as the very same string.)
C10_Normalize ==
    (plugin = "normalize" /\ pc = "done") =>
        LET P == Path(args.file_path)
            c == Path(args.cwd)
            R == outcome.value
            under == \E rest \in {SubSeq(P.parts, Len(c.parts) + 1, Len(P.parts))} :
                        P.parts = c.parts \o rest
        IN /\ (P.abs /\ under) =>
                 /\ ~Path(R).abs
                 /\ JoinPath(c, Path(R)) = P
           /\ (P.abs /\ ~under) =>
                 /\ Path(R) = P
                 /\ PathStr(P) = args.file_path => R = args.file_path
           /\ ~P.abs => R = args.file_path
           /\ (args.file_path = "/work2/a.parquet" /\ args.cwd = "/work")
                 => R = "/work2/a.parquet"
           /\ (args.file_path = "/work/proj/a.parquet" /\ args.cwd = "/work")
                 => R = "proj/a.parquet"

\* C10 witness: a sibling directory whose name starts with cwd's name was
\* normalised and came back as the absolute path.
C10_Witness ==
    /\ plugin = "normalize" /\ pc = "done"
    /\ args.cwd = "/work"
    /\ args.file_path = "/work2/proj/a.parquet"
    /\ outcome.value = "/work2/proj/a.parquet"


\* C11: in every OverflowReport rows_returned is the number of elements of the
\* payload when the payload is a JSON array and null otherwise; whenever
\* rows_returned is not null (0 included) suggested_limit is
\* max(1, floor(rows_returned * (5000 / estimated_tokens) * 0.8)), and
\* suggested_limit is null only when rows_returned is null.
\* floor(r * (5000 / t) * 0.8) is floor(r * 4000 / t).
C11_SuggestedLimit ==
    (plugin = "enforce" /\ pc = "done" /\ IsOverflowReport(outcome.value)) =>
        LET report == outcome.value.doc
            rows_returned == Get(report, "rows_returned")
            suggested == Get(report, "suggested_limit")
            estimated_tokens == Get(report, "estimated_tokens").v
        IN /\ rows_returned =
                 IF args.payload.doc.t = "list"
                 THEN Int_(Len(args.payload.doc.items)) ELSE Null
           /\ rows_returned.t = "int" =>
                 suggested = Int_(Max(1, (rows_returned.v * 4000) \div estimated_tokens))
           /\ suggested.t = "null" => rows_returned.t = "null"


\* C12: a file given to query_parquet_files or get_schema is accepted only if
\* it exists and is a regular file: when a given path exists but is a
\* directory, input validation rejects the call with a missing-input failure
\* (FileNotFoundError, or ValueError for the wrong type) and no engine
\* connection is ever opened, as for a path that does not exist.
C12_RegularFileOnly ==
    (plugin \in {"query", "schema"} /\ pc # "validate"
       /\ \E i \in 1..Len(GivenFiles) : GivenFiles[i] \in directories) =>
        /\ pc = "done"
        /\ outcome.kind = "raise"
        /\ outcome.exc.cls \in {"FileNotFoundError", "ValueError"}
        /\ conns = << >> /\ conn = 0


\* A query_parquet_files call whose failure came from creating a view: the
\* except clause has built its report and the query was never handed over.
RegistrationFailed ==
    /\ plugin = "query" /\ pc \in {"finally", "done"}
    /\ exc.cls = "RuntimeError"
    /\ ~executed

\* C13: when creating the view of an input file fails, the call raises the
\* generic execution error ("Query execution failed") whatever the engine's
\* text says, never the SQL-syntax or the table-reference report; the caller's
\* query is never executed; the views created for earlier files are still
\* there (nothing is rolled back one by one) and the connection is closed.
C13_ViewFailureIsGeneric ==
    RegistrationFailed =>
        /\ exc.prefix = "Query execution failed"
        /\ views = {assigned[i] : i \in 1..(Len(assigned) - 1)}
        /\ pc = "done" => (outcome = Raise(exc) /\ AllClosed)

\* C14: whenever query_parquet_files raises a categorised error, the table list
\* in it is exactly the set of names whose view exists on the connection, never
\* a name whose view failed or was not attempted, and it is "None" only when no
\* view exists.
C14_TablesAreViews ==
    (plugin = "query" /\ pc \in {"finally", "done"} /\ exc.cls = "RuntimeError") =>
        exc.tables = IF views = {} THEN {"None"} ELSE views

=========================================================================
